---- MODULE Spec2Model ----
(***************************************************************************)
(* Model of the GLAS execution engine: the node gate (nodes/base.py), the  *)
(* task runner (task/core.py), the control operations the orchestrator     *)
(* dispatches to them and the life cycle of the orchestrator itself        *)
(* (orchestrator/base.py, with the handlers of base.py that guard it).     *)
(*                                                                         *)
(* Spec is a started orchestrator with its tasks and the operator acting   *)
(* on them; FairSpec adds the scheduling of the threads; FairSpecSuccess   *)
(* is the workers alone, every action succeeding; SpecOrch is the          *)
(* orchestrator from its construction: start, add_task, reload, stop.      *)
(*                                                                         *)
(* Each task worker is a thread; its position in Task.run / Task._run /    *)
(* BaseNode.execute is pc[t].  The control operations (stop, pause,        *)
(* continue, restart_node) run on the HTTP handler threads and interleave  *)
(* with the workers at every blocking point of the worker.                 *)
(*                                                                         *)
(* The relational store is a sink: a row inserted or updated by a call of  *)
(* nodes/base.py or task/core.py is appended to / written in the table the *)
(* call names.  Three declarations the calls rely on are older than the    *)
(* calls (DBNodeCallRecord.insert lacks the message parameter, DBTask has  *)
(* no set_paused, TaskState has no PAUSED member); the model follows the   *)
(* calls: the record is inserted, and PAUSED is a state kept in memory.    *)
(***************************************************************************)
EXTENDS Integers, Sequences, FiniteSets, TLC

(* ---------------------------------------------------------------- bounds *)
\* how many times the user actions of the nodes return a non-zero status
MaxFail == 1
\* how many times a hook or a user action raises
MaxRaise == 1
\* how many operator pauses are issued
MaxPause == 1
\* how many times an instrument changes between reachable and unreachable
MaxToggle == 1
\* how many restart_node requests are issued
MaxRestart == 1
\* how many of the events bounded above happen in one run, all kinds together
MaxEvents == 2
\* how many start requests the orchestrator receives
MaxStart == 2
\* how many stop requests the orchestrator receives
MaxStop == 1
\* how many reload_config requests the HTTP surface receives
MaxReload == 1
\* how many start, stop and reload_config requests are received in one run,
\* all kinds together
MaxRequests == 2

(* ------------------------------------------------------------- constants *)
None == "none"

\* nodes/enums.py NodeErrorNextStep: the values are used as index offsets
SELF == 0
NEXT == 1

\* nodes/enums.py NodeState
NodeStates == {"AVAILABLE", "IN_USE", "RECOVERY", "OFFLINE", "ERROR", "RESTARTING"}

\* task/enums.py TaskState
TaskStates == {"PENDING", "ACTIVE", "FINISHED", "ERROR"}
\* the member Task.set_paused assigns; task/enums.py does not declare it
PAUSED == "PAUSED"

Nodes == {"A", "B", "C"}
\* a node id no registered node has, and the ids a request can carry
UnknownNode == "X"
NodeIds == Nodes \cup {UnknownNode}
Tasks == {"t1", "t2"}
\* the tasks the operator issues stop, pause and continue requests on
Operated == {"t1"}

\* the configured workflows (workflow/core.py: at least two steps each)
Workflows == [t1 |-> <<"A", "B", "C">>, t2 |-> <<"B", "C">>]

\* what next_node_execution() of each node answers: B overrides the default
\* to redo its step
Policy == [A |-> NEXT, B |-> SELF, C |-> NEXT]

\* what the user action of a node can do: return status 0, return a
\* non-zero status with a message, or raise
ActionOk == [status |-> 0, message |-> None]
ActionFail == [status |-> 42, message |-> "jam"]
RestartStatus == {0, 5}
\* `status, msg` of Task._run before the first execute() returned
NoReturn == [status |-> -1, message |-> None]
\* continue_execution() has not returned yet
NotCalled == -1
\* no pause_execution() issued inside an execute() is pending
NoStep == -1

\* orchestrator/enums.py OrchestratorState
OrchestratorStates == {"STOPPED", "RUNNING", "ERROR"}
\* orchestrator/enums.py OrchestratorErrorCodes: what the two factories
\* (_load_nodes, _load_workflows) can answer
FactoryCodes == {"OK", "COULD_NOT_FIND_CONFIGURATION", "COULD_NOT_PARSE_CONFIGURATION"}

VARIABLES
    \* ---- BaseNode fields and the nodes table
    state,              \* node.state
    mu,                 \* node.mu: the task whose worker holds the gate, or None
    node_task_id,       \* node._task_id
    reachable,          \* what the node's is_reachable() hook answers
    policy,             \* what the node's next_node_execution() answers
    db_node_state,      \* nodes.node_state_id
    node_call_records,  \* node_call_records rows of the node, oldest first
    \* ---- Task fields, the tasks table and the execution_logs rows
    workflow,           \* task._workflow.steps
    t_state,            \* task._state
    stop_flag,          \* task._stop_flag
    current_step,       \* task._current_step
    pause_event,        \* task._pause_event
    cond_locked,        \* the worker's _run frames hold task._pause_condition
    db_task_state,      \* tasks.task_state_id
    db_active_step,     \* tasks.active_step
    execution_logs,     \* execution_logs rows of the task (column name), oldest first
    \* ---- the worker thread of the task
    pc,                 \* position of the worker
    step_id,            \* argument of the innermost _run frame
    ret,                \* (status, message) returned by the last execute()
    has_been_paused,    \* local of the innermost _run frame
    exit_code,          \* value _run returned to run()
    \* ---- handler threads
    op_wait,            \* control operation blocked on task._pause_condition
    continue_ret,       \* value the last continue_execution() returned
    running_tasks,      \* orchestrator._running_tasks
    \* ---- history
    invoked,            \* step indices on which the worker called execute()
    fail_pending,       \* a step failed and no continue/stop came since
    pause_step,         \* step inside whose execute() the pending pause was issued
    n_fail, n_pause, n_raise, n_toggle, n_restart,
    \* ---- BaseOrchestrator fields and the threads of its handlers
    o_state,            \* orchestrator._state
    o_nodes,            \* ids of the nodes in orchestrator._nodes
    o_workflows,        \* names of the workflows in orchestrator._workflows
    terminate_event,    \* orchestrator._terminate_event
    o_pc,               \* position of the thread inside BaseOrchestrator.stop
    o_idx,              \* index of the list iterator of the loop stop() is in
    o_cur,              \* the task whose thread stop() is joining
    reload_pc,          \* position of the thread inside reload_config
    last_call,          \* last start()/stop() call: its return code and callback
    load_ret,           \* last load_config() call: factory codes and return code
    n_start, n_stop, n_reload,  \* start, stop and reload_config requests received
    add_pending,        \* tasks whose add_task() started the thread and has not appended yet
    restart_ret         \* last restart_node request: node id, restart()'s value, code, HTTP status

node_vars == <<state, mu, node_task_id, reachable, policy, db_node_state, node_call_records>>
task_vars == <<workflow, t_state, stop_flag, current_step, pause_event, cond_locked,
               db_task_state, db_active_step, execution_logs>>
worker_vars == <<pc, step_id, ret, has_been_paused, exit_code>>
handler_vars == <<op_wait, continue_ret, running_tasks>>
count_vars == <<n_fail, n_pause, n_raise, n_toggle, n_restart>>
hist_vars == <<invoked, fail_pending, pause_step, count_vars>>
orch_vars == <<o_state, o_nodes, o_workflows, terminate_event, o_pc, o_idx, o_cur,
               reload_pc, last_call, load_ret, n_start, n_stop, n_reload,
               add_pending, restart_ret>>
vars == <<node_vars, task_vars, worker_vars, handler_vars, hist_vars, orch_vars>>

(* --------------------------------------------------------------- helpers *)
\* one more failure, raise, pause, reachability change or restart request fits
EventAllowed == n_fail + n_raise + n_pause + n_toggle + n_restart < MaxEvents

\* one more start, stop or reload_config request fits
RequestAllowed == n_start + n_stop + n_reload < MaxRequests

\* Python's steps[i] for 0 <= i < len(steps)
StepAt_first(steps, i) == steps[1]
StepAt(steps, i) == steps[i + 1]

\* Python's steps[k:], negative k counting from the end
SliceFrom(steps, k) ==
    IF k < 0
    THEN SubSeq(steps, (IF Len(steps) + k < 0 THEN 0 ELSE Len(steps) + k) + 1, Len(steps))
    ELSE SubSeq(steps, k + 1, Len(steps))

Range(s) == {s[i] : i \in 1..Len(s)}

\* Python's list.remove(x) on a list that holds x at most once
ListRemove(s, x) == SelectSeq(s, LAMBDA y : y # x)

CurNode(t) == StepAt(workflow[t], current_step[t])

(* ------------------------------------------------------------------ Init *)
\* the orchestrator after a successful start() and one add_task() per task:
\* every worker thread is started and is about to enter Task.run
Init ==
    /\ state = [n \in Nodes |-> "AVAILABLE"]
    /\ mu = [n \in Nodes |-> None]
    /\ node_task_id = [n \in Nodes |-> None]
    /\ reachable = [n \in Nodes |-> TRUE]
    /\ policy = Policy
    /\ db_node_state = [n \in Nodes |-> "AVAILABLE"]
    /\ node_call_records = [n \in Nodes |-> <<>>]
    /\ workflow = Workflows
    /\ t_state = [t \in Tasks |-> "PENDING"]
    /\ stop_flag = [t \in Tasks |-> FALSE]
    /\ current_step = [t \in Tasks |-> -1]
    /\ pause_event = [t \in Tasks |-> FALSE]
    /\ cond_locked = [t \in Tasks |-> FALSE]
    /\ db_task_state = [t \in Tasks |-> "PENDING"]
    /\ db_active_step = [t \in Tasks |-> None]
    /\ execution_logs = [t \in Tasks |-> <<>>]
    /\ pc = [t \in Tasks |-> "start"]
    /\ step_id = [t \in Tasks |-> 0]
    /\ ret = [t \in Tasks |-> NoReturn]
    /\ has_been_paused = [t \in Tasks |-> FALSE]
    /\ exit_code = [t \in Tasks |-> None]
    /\ op_wait = [t \in Tasks |-> None]
    /\ continue_ret = [t \in Tasks |-> NotCalled]
    /\ running_tasks = <<"t1", "t2">>
    /\ invoked = [t \in Tasks |-> <<>>]
    /\ fail_pending = [t \in Tasks |-> FALSE]
    /\ pause_step = [t \in Tasks |-> NoStep]
    /\ n_fail = 0
    /\ n_pause = 0
    /\ n_raise = 0
    /\ n_toggle = 0
    /\ n_restart = 0
    /\ o_state = "RUNNING"
    /\ o_nodes = Nodes
    /\ o_workflows = DOMAIN Workflows
    /\ terminate_event = FALSE
    /\ o_pc = "idle"
    /\ o_idx = 0
    /\ o_cur = None
    /\ reload_pc = "idle"
    /\ last_call = [op |-> "start", code |-> "OK", callback |-> TRUE]
    /\ load_ret = [nodes |-> "OK", workflows |-> "OK", code |-> "OK"]
    /\ n_start = 1
    /\ n_stop = 0
    /\ n_reload = 0
    /\ add_pending = {}
    /\ restart_ret = [node |-> None, status |-> NotCalled, code |-> None, http |-> NotCalled]


(* ------------------------------------------------------------------ Node *)
\* BaseNode.is_error
is_error(n) == state[n] = "ERROR"

\* BaseNode.is_usable
is_usable(n) == reachable[n] /\ ~is_error(n)

\* LoggingManager.insert_data_sample: one execution_logs row named `name`
InsertDataSample_unsaved(t, name) ==
    IF name = "w. acc." THEN [execution_logs EXCEPT ![t] = Append(@, name)] ELSE execution_logs
InsertDataSample(t, name) == [execution_logs EXCEPT ![t] = Append(@, name)]

\* DBNodeCallRecord.insert as BaseNode.execute calls it: one row for the node
InsertNodeCallRecord(n, outcome) == [node_call_records EXCEPT ![n] = Append(@, outcome)]

\* BaseNode.execute, first half: `with self.mu` is entered, the "w. acc."
\* sample is inserted, the node is marked IN_USE in memory and in the store.
\* The worker then sits in the pre-execution hook / user action.
GateFree_unguarded(n) == TRUE
GateFree(n) == mu[n] = None

ExecuteAcquire(t) ==
    /\ pc[t] = "acquire"
    /\ LET n == CurNode(t) IN
        /\ GateFree(n)
        /\ mu' = [mu EXCEPT ![n] = t]
        /\ execution_logs' = InsertDataSample(t, "w. acc.")
        /\ node_task_id' = [node_task_id EXCEPT ![n] = t]
        /\ state' = [state EXCEPT ![n] = "IN_USE"]
        /\ db_node_state' = [db_node_state EXCEPT ![n] = "IN_USE"]
    /\ pc' = [pc EXCEPT ![t] = "action"]
    /\ UNCHANGED <<reachable, policy, node_call_records>>
    /\ UNCHANGED <<workflow, t_state, stop_flag, current_step, pause_event, cond_locked,
                   db_task_state, db_active_step>>
    /\ UNCHANGED <<step_id, ret, has_been_paused, exit_code>>
    /\ UNCHANGED <<handler_vars, hist_vars>>
    /\ UNCHANGED orch_vars

\* the gate as the exit of `with self.mu` leaves it
GateAfterExit_held(n) == mu
GateAfterExit(n) == [mu EXCEPT ![n] = None]

\* Task.set_error
TaskSetError_unset(t) ==
    /\ db_task_state' = [db_task_state EXCEPT ![t] = "ERROR"]
    /\ db_active_step' = [db_active_step EXCEPT ![t] = None]
    /\ UNCHANGED t_state
TaskSetError(t) ==
    /\ db_task_state' = [db_task_state EXCEPT ![t] = "ERROR"]
    /\ db_active_step' = [db_active_step EXCEPT ![t] = None]
    /\ t_state' = [t_state EXCEPT ![t] = "ERROR"]

\* BaseNode.execute, the user action returned status 0 (lines 149-160), and
\* the part of Task._run up to `with self._pause_condition` (lines 196-201)
ExecuteSuccess(t) ==
    /\ pc[t] = "action"
    /\ LET n == CurNode(t) IN
        /\ node_call_records' = InsertNodeCallRecord(n, "success")
        /\ state' = [state EXCEPT ![n] = "AVAILABLE"]
        /\ db_node_state' = [db_node_state EXCEPT ![n] = "AVAILABLE"]
        /\ execution_logs' = InsertDataSample(t, n)
        /\ node_task_id' = [node_task_id EXCEPT ![n] = None]
        /\ mu' = GateAfterExit(n)
    /\ ret' = [ret EXCEPT ![t] = ActionOk]
    /\ pc' = [pc EXCEPT ![t] = "cond"]
    /\ UNCHANGED <<reachable, policy>>
    /\ UNCHANGED <<workflow, t_state, stop_flag, current_step, pause_event, cond_locked,
                   db_task_state, db_active_step>>
    /\ UNCHANGED <<step_id, has_been_paused, exit_code>>
    /\ UNCHANGED <<handler_vars, hist_vars>>
    /\ UNCHANGED orch_vars

\* BaseNode.execute, line 146
TaskIdAfterFailure_kept(n) == node_task_id
TaskIdAfterFailure(n) == [node_task_id EXCEPT ![n] = None]

\* Task._run, line 201
PauseEventAfterFailure_unset(t) == pause_event
PauseEventAfterFailure(t) == [pause_event EXCEPT ![t] = TRUE]

\* BaseNode.execute, the user action returned a non-zero status (lines
\* 142-147); Task._run then sets the task in error and sets the pause event
ExecuteFailure(t) ==
    /\ pc[t] = "action"
    /\ n_fail < MaxFail /\ EventAllowed
    /\ LET n == CurNode(t) IN
        /\ state' = [state EXCEPT ![n] = "ERROR"]
        /\ db_node_state' = [db_node_state EXCEPT ![n] = "ERROR"]
        /\ node_call_records' = InsertNodeCallRecord(n, "error")
        /\ node_task_id' = TaskIdAfterFailure(n)
        /\ mu' = GateAfterExit(n)
    /\ ret' = [ret EXCEPT ![t] = ActionFail]
    /\ TaskSetError(t)
    /\ pause_event' = PauseEventAfterFailure(t)
    /\ pc' = [pc EXCEPT ![t] = "cond"]
    /\ fail_pending' = [fail_pending EXCEPT ![t] = TRUE]
    /\ n_fail' = n_fail + 1
    /\ UNCHANGED <<reachable, policy>>
    /\ UNCHANGED <<workflow, stop_flag, current_step, cond_locked, execution_logs>>
    /\ UNCHANGED <<step_id, has_been_paused, exit_code>>
    /\ UNCHANGED <<handler_vars, invoked, pause_step, n_pause, n_raise, n_toggle, n_restart>>
    /\ UNCHANGED orch_vars

\* BaseNode.execute, a hook or the user action raised: the `with` releases
\* the gate, nothing else of execute runs, and the exception unwinds
\* Task._run and Task.run, so the worker thread ends without its callback
ExecuteRaise(t) ==
    /\ pc[t] = "action"
    /\ n_raise < MaxRaise /\ EventAllowed
    /\ mu' = GateAfterExit(CurNode(t))
    /\ cond_locked' = [cond_locked EXCEPT ![t] = FALSE]
    /\ pc' = [pc EXCEPT ![t] = "dead"]
    /\ n_raise' = n_raise + 1
    /\ UNCHANGED <<state, node_task_id, reachable, policy, db_node_state, node_call_records>>
    /\ UNCHANGED <<workflow, t_state, stop_flag, current_step, pause_event,
                   db_task_state, db_active_step, execution_logs>>
    /\ UNCHANGED <<step_id, ret, has_been_paused, exit_code>>
    /\ UNCHANGED <<handler_vars, invoked, fail_pending, pause_step, n_fail, n_pause, n_toggle,
                   n_restart>>
    /\ UNCHANGED orch_vars

\* BaseNode.restart with the restart hook answering s
NodeStateAfterRestart_always(st, n, s) == [st EXCEPT ![n] = "AVAILABLE"]
NodeStateAfterRestart(st, n, s) == IF s = 0 THEN [st EXCEPT ![n] = "AVAILABLE"] ELSE st

\* BaseOrchestrator.restart_node: the code it returns for a node id that is
\* registered or not and, when it is, for the status s of restart()
RestartNodeCode(known, s) ==
    IF ~known THEN "CONTENT_NOT_FOUND"
    ELSE IF s # 0 THEN "RESTART_NODE_FAILED"
    ELSE "OK"

\* restart_node of the HTTP surface: the status of the response for the
\* code the orchestrator returned; a code no case matches falls out of the
\* match statement and the handler returns None, answered with 200
RestartNodeHttp(code) ==
    IF code = "CONTENT_NOT_FOUND" THEN 404
    ELSE IF code = "CONTINUE_TASK_FAILED" THEN 500
    ELSE 200

\* restart_node of the HTTP surface with BaseOrchestrator.restart_node, on
\* the node id n, the restart hook answering s
RestartNode(n, s) ==
    /\ n_restart < MaxRestart /\ EventAllowed
    /\ n_restart' = n_restart + 1
    /\ IF n \in o_nodes
       THEN /\ state' = NodeStateAfterRestart(state, n, s)
            /\ db_node_state' = [db_node_state EXCEPT ![n] = state'[n]]
       ELSE UNCHANGED <<state, db_node_state>>
    /\ restart_ret' =
          LET code == RestartNodeCode(n \in o_nodes, s)
          IN  [node |-> n, status |-> IF n \in o_nodes THEN s ELSE NotCalled,
               code |-> code, http |-> RestartNodeHttp(code)]
    /\ UNCHANGED <<mu, node_task_id, reachable, policy, node_call_records>>
    /\ UNCHANGED <<task_vars, worker_vars, handler_vars>>
    /\ UNCHANGED <<invoked, fail_pending, pause_step, n_fail, n_pause, n_raise, n_toggle>>
    /\ UNCHANGED <<o_state, o_nodes, o_workflows, terminate_event, o_pc, o_idx, o_cur,
                   reload_pc, last_call, load_ret, n_start, n_stop, n_reload, add_pending>>

\* the instrument behind a node becomes reachable or unreachable
SetReachable(n) ==
    /\ n_toggle < MaxToggle /\ EventAllowed
    /\ n_toggle' = n_toggle + 1
    /\ reachable' = [reachable EXCEPT ![n] = ~@]
    /\ UNCHANGED <<state, mu, node_task_id, policy, db_node_state, node_call_records>>
    /\ UNCHANGED <<task_vars, worker_vars, handler_vars>>
    /\ UNCHANGED <<invoked, fail_pending, pause_step, n_fail, n_pause, n_raise, n_restart>>
    /\ UNCHANGED orch_vars


(* ------------------------------------------------------------------ Task *)
\* Task.any_unreachable_node: the ids of the steps it reports
UnreachableIds(t) ==
    {n \in Range(SliceFrom(workflow[t], current_step[t])) : ~reachable[n]}

\* Task._recursion_exit: the value it returns (None: go on with the step)
RecursionExitCode_early(t) ==
    IF stop_flag[t] THEN "EINTR"
    ELSE IF UnreachableIds(t) # {} THEN "EHOSTUNREACH"
    ELSE IF t_state[t] = "ERROR" THEN "1"
    ELSE IF step_id[t] >= Len(workflow[t]) - 1 THEN "0"
    ELSE None
RecursionExitCode(t) ==
    IF stop_flag[t] THEN "EINTR"
    ELSE IF UnreachableIds(t) # {} THEN "EHOSTUNREACH"
    ELSE IF t_state[t] = "ERROR" THEN "1"
    ELSE IF step_id[t] >= Len(workflow[t]) THEN "0"
    ELSE None

\* Task.run up to the first call of _run
Run(t) ==
    /\ pc[t] = "start"
    /\ stop_flag' = [stop_flag EXCEPT ![t] = FALSE]
    /\ db_task_state' = [db_task_state EXCEPT ![t] = "ACTIVE"]
    /\ t_state' = [t_state EXCEPT ![t] = "ACTIVE"]
    /\ step_id' = [step_id EXCEPT ![t] = 0]
    /\ pc' = [pc EXCEPT ![t] = "check"]
    /\ UNCHANGED <<workflow, current_step, pause_event, cond_locked, db_active_step,
                   execution_logs>>
    /\ UNCHANGED <<ret, has_been_paused, exit_code>>
    /\ UNCHANGED <<node_vars, handler_vars, hist_vars>>
    /\ UNCHANGED orch_vars

\* Task._run, lines 182-183: _recursion_exit ends the recursion; every
\* frame returns, which leaves every `with self._pause_condition`
RecursionExit(t) ==
    /\ pc[t] = "check"
    /\ RecursionExitCode(t) # None
    /\ IF RecursionExitCode(t) \in {"EINTR", "EHOSTUNREACH"}
       THEN TaskSetError(t)
       ELSE UNCHANGED <<db_task_state, db_active_step, t_state>>
    /\ exit_code' = [exit_code EXCEPT ![t] = RecursionExitCode(t)]
    /\ cond_locked' = [cond_locked EXCEPT ![t] = FALSE]
    /\ pc' = [pc EXCEPT ![t] = "exit"]
    /\ UNCHANGED <<workflow, stop_flag, current_step, pause_event, execution_logs>>
    /\ UNCHANGED <<step_id, ret, has_been_paused>>
    /\ UNCHANGED <<node_vars, handler_vars, hist_vars>>
    /\ UNCHANGED orch_vars

\* Task._run, lines 182-195: the checks pass, the step is made current,
\* persisted as active step and execute() is called on its node
InvokeStep(t) ==
    /\ pc[t] = "check"
    /\ RecursionExitCode(t) = None
    /\ current_step' = [current_step EXCEPT ![t] = step_id[t]]
    /\ db_active_step' = [db_active_step EXCEPT ![t] = StepAt(workflow[t], step_id[t])]
    /\ invoked' = [invoked EXCEPT ![t] = Append(@, step_id[t])]
    /\ pc' = [pc EXCEPT ![t] = "acquire"]
    /\ UNCHANGED <<workflow, t_state, stop_flag, pause_event, cond_locked, db_task_state,
                   execution_logs>>
    /\ UNCHANGED <<step_id, ret, has_been_paused, exit_code>>
    /\ UNCHANGED <<node_vars, handler_vars, fail_pending, pause_step, count_vars>>
    /\ UNCHANGED orch_vars

\* dst_node of the current frame is None
IsLastStep(t) == ~(current_step[t] < Len(workflow[t]) - 1)

\* the index _run recurses on after the wait loop of a paused frame
ResumeIndex_next(t) == current_step[t] + NEXT
ResumeIndex(t) == current_step[t] + policy[CurNode(t)]

\* Task._run, lines 203-214, from `with self._pause_condition` to the first
\* wait() or, when the event is not set, to the recursive call
EnterCondition(t) ==
    /\ pc[t] = "cond"
    /\ has_been_paused' = [has_been_paused EXCEPT ![t] = pause_event[t]]
    /\ IF pause_event[t]
       THEN IF IsLastStep(t)
            \* the log line of the loop reads dst_node.name of None
            THEN /\ pc' = [pc EXCEPT ![t] = "dead"]
                 /\ cond_locked' = [cond_locked EXCEPT ![t] = FALSE]
                 /\ UNCHANGED step_id
            ELSE /\ pc' = [pc EXCEPT ![t] = "parked"]
                 /\ UNCHANGED <<cond_locked, step_id>>
       ELSE /\ pc' = [pc EXCEPT ![t] = "check"]
            /\ step_id' = [step_id EXCEPT ![t] = current_step[t] + 1]
            /\ UNCHANGED cond_locked
    /\ UNCHANGED <<workflow, t_state, stop_flag, current_step, pause_event,
                   db_task_state, db_active_step, execution_logs>>
    /\ UNCHANGED <<ret, exit_code>>
    /\ UNCHANGED <<node_vars, handler_vars, hist_vars>>
    /\ UNCHANGED orch_vars

\* Task._run, lines 206-212: wait() returned after a notify; the loop tests
\* the event again and either waits again or recurses inside the `with`
Wake(t) ==
    /\ pc[t] = "woken"
    /\ IF pause_event[t]
       THEN /\ pc' = [pc EXCEPT ![t] = "parked"]
            /\ UNCHANGED <<cond_locked, step_id>>
       ELSE /\ pc' = [pc EXCEPT ![t] = "check"]
            /\ step_id' = [step_id EXCEPT ![t] = ResumeIndex(t)]
            /\ cond_locked' = [cond_locked EXCEPT ![t] = TRUE]
    /\ UNCHANGED <<workflow, t_state, stop_flag, current_step, pause_event,
                   db_task_state, db_active_step, execution_logs>>
    /\ UNCHANGED <<ret, has_been_paused, exit_code>>
    /\ UNCHANGED <<node_vars, handler_vars, hist_vars>>
    /\ UNCHANGED orch_vars

\* Task.run, lines 232-237, with the callback the orchestrator passes
\* (BaseOrchestrator._remove_finished_task); list.remove raises when the
\* entry is not in the list, which ends the thread inside the callback
RunExit(t) ==
    /\ pc[t] = "exit"
    /\ IF exit_code[t] = "0"
       THEN /\ db_task_state' = [db_task_state EXCEPT ![t] = "FINISHED"]
            /\ db_active_step' = [db_active_step EXCEPT ![t] = None]
            /\ t_state' = [t_state EXCEPT ![t] = "FINISHED"]
       ELSE UNCHANGED <<db_task_state, db_active_step, t_state>>
    /\ running_tasks' = ListRemove(running_tasks, t)
    /\ pc' = [pc EXCEPT ![t] = IF t \in Range(running_tasks) THEN "done" ELSE "dead"]
    /\ UNCHANGED <<workflow, stop_flag, current_step, pause_event, cond_locked,
                   execution_logs>>
    /\ UNCHANGED <<step_id, ret, has_been_paused, exit_code>>
    /\ UNCHANGED <<node_vars, op_wait, continue_ret, hist_vars>>
    /\ UNCHANGED orch_vars


(* ---------------------------------------------------- control operations *)
\* task._pause_condition can be acquired by a handler thread: the worker's
\* frames do not hold it, or the worker released it inside wait()
CondFree(t) == ~cond_locked[t] \/ pc[t] \in {"parked", "woken"}

\* Condition.notify(): the worker blocked in wait(), if any, is woken
Notify(t) == IF pc[t] = "parked" THEN [pc EXCEPT ![t] = "woken"] ELSE pc

\* Task.stop
Stop(t) ==
    /\ t \in Range(running_tasks)
    /\ stop_flag' = [stop_flag EXCEPT ![t] = TRUE]
    /\ pause_event' = [pause_event EXCEPT ![t] = FALSE]
    /\ fail_pending' = [fail_pending EXCEPT ![t] = FALSE]
    /\ pause_step' = [pause_step EXCEPT ![t] = NoStep]
    /\ UNCHANGED <<workflow, t_state, current_step, cond_locked, db_task_state,
                   db_active_step, execution_logs>>
    /\ UNCHANGED <<node_vars, worker_vars, handler_vars, invoked, count_vars>>
    /\ UNCHANGED orch_vars

\* the worker of t has called execute() and execute() has not returned
InExecute(t) == pc[t] \in {"acquire", "action"}

\* Task.set_paused: the state it leaves in memory
TaskSetPaused(t) == [t_state EXCEPT ![t] = PAUSED]

\* Task.pause_execution (through BaseOrchestrator.pause_task); when the
\* worker holds the condition the handler blocks on `with`
PauseExecution(t) ==
    /\ t \in Range(running_tasks)
    /\ op_wait[t] = None
    /\ n_pause < MaxPause /\ EventAllowed
    /\ n_pause' = n_pause + 1
    /\ t_state' = TaskSetPaused(t)
    /\ pause_step' = [pause_step EXCEPT ![t] = IF InExecute(t) THEN current_step[t] ELSE @]
    /\ IF CondFree(t)
       THEN /\ pause_event' = [pause_event EXCEPT ![t] = TRUE]
            /\ UNCHANGED op_wait
       ELSE /\ op_wait' = [op_wait EXCEPT ![t] = "pause"]
            /\ UNCHANGED pause_event
    /\ UNCHANGED <<workflow, stop_flag, current_step, cond_locked, db_task_state,
                   db_active_step, execution_logs>>
    /\ UNCHANGED <<node_vars, worker_vars, continue_ret, running_tasks>>
    /\ UNCHANGED <<invoked, fail_pending, n_fail, n_raise, n_toggle, n_restart>>
    /\ UNCHANGED orch_vars

\* Task.pause_execution, lines 115-118, once the condition is acquired
PauseAcquired(t) ==
    /\ op_wait[t] = "pause"
    /\ CondFree(t)
    /\ pause_event' = [pause_event EXCEPT ![t] = TRUE]
    /\ op_wait' = [op_wait EXCEPT ![t] = None]
    /\ UNCHANGED <<workflow, t_state, stop_flag, current_step, cond_locked, db_task_state,
                   db_active_step, execution_logs>>
    /\ UNCHANGED <<node_vars, worker_vars, continue_ret, running_tasks, hist_vars>>
    /\ UNCHANGED orch_vars

\* Task.continue_execution, lines 129-134: the loop over the steps, with
\* r[n] the status the restart hook of node n answers.  The result is the
\* node states after the loop, the nodes restart() was called on and the
\* status the loop ended with (0: it ran to its end).
RECURSIVE RestartSteps_unchecked(_, _, _, _, _)
RestartSteps_unchecked(steps, i, st, called, r) ==
    IF i > Len(steps)
    THEN [st |-> st, called |-> called, status |-> 0]
    ELSE LET n == steps[i] IN
         IF st[n] \in {"ERROR", "RECOVERY"}
         THEN RestartSteps_unchecked(steps, i + 1, NodeStateAfterRestart(st, n, r[n]),
                                     called \cup {n}, r)
         ELSE RestartSteps_unchecked(steps, i + 1, st, called, r)
RECURSIVE RestartSteps(_, _, _, _, _)
RestartSteps(steps, i, st, called, r) ==
    IF i > Len(steps)
    THEN [st |-> st, called |-> called, status |-> 0]
    ELSE LET n == steps[i] IN
         IF st[n] \in {"ERROR", "RECOVERY"}
         THEN IF r[n] # 0
              THEN [st |-> st, called |-> called \cup {n}, status |-> r[n]]
              ELSE RestartSteps(steps, i + 1, NodeStateAfterRestart(st, n, r[n]),
                                called \cup {n}, r)
         ELSE RestartSteps(steps, i + 1, st, called, r)

\* what the restart hooks can answer during one continue_execution(): the
\* hooks of the nodes in F fail, F ranging over the steps that need a restart
RestartAnswers(t) ==
    {[n \in Nodes |-> IF n \in F THEN CHOOSE s \in RestartStatus : s # 0 ELSE 0] :
        F \in SUBSET {n \in Range(workflow[t]) : state[n] \in {"ERROR", "RECOVERY"}}}

\* Task.continue_execution (through BaseOrchestrator.continue_task)
ContinueExecution(t, r) ==
    /\ t \in Range(running_tasks)
    /\ op_wait[t] = None
    /\ LET res == RestartSteps(workflow[t], 1, state, {}, r) IN
        /\ state' = res.st
        /\ db_node_state' = [n \in Nodes |->
                                IF n \in res.called THEN res.st[n] ELSE db_node_state[n]]
        /\ continue_ret' = [continue_ret EXCEPT ![t] = res.status]
        /\ IF res.status # 0
           THEN UNCHANGED <<db_task_state, t_state, pause_event, pc, op_wait, fail_pending,
                            pause_step>>
           ELSE /\ db_task_state' = [db_task_state EXCEPT ![t] = "ACTIVE"]
                /\ pause_step' = [pause_step EXCEPT ![t] = NoStep]
                /\ t_state' = [t_state EXCEPT ![t] = "ACTIVE"]
                /\ pause_event' = [pause_event EXCEPT ![t] = FALSE]
                /\ fail_pending' = [fail_pending EXCEPT ![t] = FALSE]
                /\ IF CondFree(t)
                   THEN /\ pc' = Notify(t)
                        /\ UNCHANGED op_wait
                   ELSE /\ op_wait' = [op_wait EXCEPT ![t] = "continue"]
                        /\ UNCHANGED pc
    /\ UNCHANGED <<mu, node_task_id, reachable, policy, node_call_records>>
    /\ UNCHANGED <<workflow, stop_flag, current_step, cond_locked, db_active_step,
                   execution_logs>>
    /\ UNCHANGED <<step_id, ret, has_been_paused, exit_code>>
    /\ UNCHANGED <<running_tasks, invoked, count_vars>>
    /\ UNCHANGED orch_vars

\* Task.continue_execution, lines 139-142, once the condition is acquired
ContinueAcquired(t) ==
    /\ op_wait[t] = "continue"
    /\ CondFree(t)
    /\ pc' = Notify(t)
    /\ op_wait' = [op_wait EXCEPT ![t] = None]
    /\ UNCHANGED <<node_vars, task_vars, step_id, ret, has_been_paused, exit_code>>
    /\ UNCHANGED <<continue_ret, running_tasks, hist_vars>>
    /\ UNCHANGED orch_vars

(* ------------------------------------------------------------------ Next *)
Next ==
    \/ \E t \in Tasks : Run(t)
    \/ \E t \in Tasks : RecursionExit(t)
    \/ \E t \in Tasks : InvokeStep(t)
    \/ \E t \in Tasks : ExecuteAcquire(t)
    \/ \E t \in Tasks : ExecuteSuccess(t)
    \/ \E t \in Tasks : ExecuteFailure(t)
    \/ \E t \in Tasks : ExecuteRaise(t)
    \/ \E t \in Tasks : EnterCondition(t)
    \/ \E t \in Tasks : Wake(t)
    \/ \E t \in Tasks : RunExit(t)
    \/ \E t \in Operated : Stop(t)
    \/ \E t \in Operated : PauseExecution(t)
    \/ \E t \in Operated : PauseAcquired(t)
    \/ \E t \in Operated : \E r \in RestartAnswers(t) : ContinueExecution(t, r)
    \/ \E t \in Operated : ContinueAcquired(t)
    \/ \E n \in NodeIds, s \in RestartStatus : RestartNode(n, s)
    \/ \E n \in Nodes : SetReachable(n)

Spec == Init /\ [][Next]_vars

\* the steps the worker thread of t takes by itself
Worker(t) ==
    \/ Run(t) \/ RecursionExit(t) \/ InvokeStep(t) \/ ExecuteAcquire(t)
    \/ ExecuteSuccess(t) \/ EnterCondition(t) \/ Wake(t) \/ RunExit(t)

\* the steps a handler thread blocked on the condition of t takes by itself
Handler(t) == PauseAcquired(t) \/ ContinueAcquired(t)

\* Spec with the scheduling of the threads: a thread that can run does run
\* (a worker that is not blocked on the gate or in wait(), a handler whose
\* `with self._pause_condition` can be entered); requests of the operator,
\* failures and raises of the user actions are not forced to happen
FairSpec ==
    /\ Spec
    /\ \A t \in Tasks : WF_vars(Worker(t))
    /\ \A t \in Operated : WF_vars(Handler(t))

\* the workers alone, every action returning 0: no failure, no raise, no
\* reachability change and no control operation
NextSuccess ==
    \/ \E t \in Tasks : Run(t)
    \/ \E t \in Tasks : RecursionExit(t)
    \/ \E t \in Tasks : InvokeStep(t)
    \/ \E t \in Tasks : ExecuteAcquire(t)
    \/ \E t \in Tasks : ExecuteSuccess(t)
    \/ \E t \in Tasks : EnterCondition(t)
    \/ \E t \in Tasks : RunExit(t)

\* the workers of the submitted tasks under the scheduling of the threads
FairSpecSuccess ==
    /\ Init
    /\ [][NextSuccess]_vars
    /\ \A t \in Tasks : WF_vars(Worker(t))


(* ---------------------------------------------------------- orchestrator *)
\* the thread of t was started and has not ended
Alive(t) == pc[t] \notin {"unborn", "done", "dead"}

\* BaseNode.shutdown on every node of ns: the rows of the nodes table
\* afterwards (node.state is not assigned)
Shutdown(db, ns) == [n \in Nodes |-> IF n \in ns THEN "OFFLINE" ELSE db[n]]

\* BaseOrchestrator.load_config with _load_nodes answering nrc and
\* _load_workflows answering wrc: the registries, the orchestrator state and
\* the return code it leaves.  A factory that fails registers nothing.
LoadConfigResult_lenient(nrc, wrc) ==
    [nodes |-> IF nrc = "OK" THEN Nodes ELSE {},
     workflows |-> IF nrc # "OK" THEN o_workflows
                   ELSE IF wrc = "OK" THEN DOMAIN Workflows ELSE {},
     state |-> o_state,
     code |-> IF nrc # "OK" THEN nrc ELSE wrc,
     ret |-> [nodes |-> nrc, workflows |-> IF nrc = "OK" THEN wrc ELSE "NOT_CALLED",
              code |-> IF nrc # "OK" THEN nrc ELSE wrc]]
LoadConfigResult(nrc, wrc) ==
    IF nrc # "OK"
    THEN [nodes |-> {}, workflows |-> o_workflows, state |-> "ERROR", code |-> nrc,
          ret |-> [nodes |-> nrc, workflows |-> "NOT_CALLED", code |-> nrc]]
    ELSE IF wrc # "OK"
    THEN [nodes |-> Nodes, workflows |-> {}, state |-> "ERROR", code |-> wrc,
          ret |-> [nodes |-> nrc, workflows |-> wrc, code |-> wrc]]
    ELSE [nodes |-> Nodes, workflows |-> DOMAIN Workflows, state |-> o_state, code |-> "OK",
          ret |-> [nodes |-> nrc, workflows |-> wrc, code |-> "OK"]]

\* BaseNode.__init__ for the nodes _load_nodes builds when it answers OK: a
\* node is known by its id, the new object takes the place of the old one
NodeFieldsAfterLoad(nrc, db) ==
    IF nrc = "OK"
    THEN /\ state' = [n \in Nodes |-> "AVAILABLE"]
         /\ mu' = [n \in Nodes |-> None]
         /\ node_task_id' = [n \in Nodes |-> None]
         /\ db_node_state' = [n \in Nodes |-> "AVAILABLE"]
    ELSE /\ db_node_state' = db
         /\ UNCHANGED <<state, mu, node_task_id>>

\* BaseOrchestrator.start, line 231
StartCancelled_never(st) == FALSE
StartCancelled(st) == st = "RUNNING"

\* BaseOrchestrator.start with the database connected or not (db) and the
\* two factories answering nrc and wrc
OrchStart(db, nrc, wrc) ==
    /\ n_start < MaxStart /\ RequestAllowed
    /\ n_start' = n_start + 1
    /\ IF StartCancelled(o_state)
       THEN /\ last_call' = [op |-> "start", code |-> "CANCELLED", callback |-> FALSE]
            /\ UNCHANGED <<o_state, o_nodes, o_workflows, terminate_event, load_ret>>
            /\ UNCHANGED <<state, mu, node_task_id, db_node_state>>
       ELSE /\ terminate_event' = FALSE
            /\ IF ~db
               THEN /\ last_call' = [op |-> "start", code |-> "DATABASE_CONNECTION_REFUSED",
                                     callback |-> FALSE]
                    /\ UNCHANGED <<o_state, o_nodes, o_workflows, load_ret>>
                    /\ UNCHANGED <<state, mu, node_task_id, db_node_state>>
               ELSE LET res == LoadConfigResult(nrc, wrc) IN
                    /\ o_nodes' = res.nodes
                    /\ o_workflows' = res.workflows
                    /\ load_ret' = res.ret
                    /\ NodeFieldsAfterLoad(nrc, db_node_state)
                    /\ o_state' = IF res.code = "OK" THEN "RUNNING" ELSE "ERROR"
                    /\ last_call' = [op |-> "start", code |-> res.code,
                                     callback |-> res.code = "OK"]
    /\ UNCHANGED <<reachable, policy, node_call_records>>
    /\ UNCHANGED <<task_vars, worker_vars, handler_vars, hist_vars>>
    /\ UNCHANGED <<o_pc, o_idx, o_cur, reload_pc, n_stop, n_reload>>
    /\ UNCHANGED <<add_pending, restart_ret>>

\* BaseOrchestrator.stop, line 259
StopCancelled_never(st) == FALSE
StopCancelled(st) == st = "STOPPED"

\* BaseOrchestrator.stop, lines 259-266: up to the first loop
OrchStop ==
    /\ o_pc = "idle"
    /\ n_stop < MaxStop /\ RequestAllowed
    /\ n_stop' = n_stop + 1
    /\ IF StopCancelled(o_state)
       THEN /\ last_call' = [op |-> "stop", code |-> "CANCELLED", callback |-> FALSE]
            /\ UNCHANGED <<terminate_event, o_pc, o_idx>>
       ELSE /\ last_call' = [op |-> "stop", code |-> "PENDING", callback |-> TRUE]
            /\ terminate_event' = TRUE
            /\ o_pc' = "stop_loop"
            /\ o_idx' = 0
    /\ UNCHANGED <<node_vars, task_vars, worker_vars, handler_vars, hist_vars>>
    /\ UNCHANGED <<o_state, o_nodes, o_workflows, o_cur, reload_pc, load_ret, n_start,
                   n_reload>>
    /\ UNCHANGED <<add_pending, restart_ret>>

\* BaseOrchestrator.stop, lines 269-270: one round of the loop over
\* _running_tasks, whose iterator reads the list at its index; the round
\* calls Task.stop on the entry it gets
StopTasks ==
    /\ o_pc = "stop_loop"
    /\ IF o_idx < Len(running_tasks)
       THEN LET t == running_tasks[o_idx + 1] IN
            /\ stop_flag' = [stop_flag EXCEPT ![t] = TRUE]
            /\ pause_event' = [pause_event EXCEPT ![t] = FALSE]
            /\ fail_pending' = [fail_pending EXCEPT ![t] = FALSE]
            /\ pause_step' = [pause_step EXCEPT ![t] = NoStep]
            /\ o_idx' = o_idx + 1
            /\ UNCHANGED o_pc
       ELSE /\ o_pc' = "join_loop"
            /\ o_idx' = 0
            /\ UNCHANGED <<stop_flag, pause_event, fail_pending, pause_step>>
    /\ UNCHANGED <<workflow, t_state, current_step, cond_locked, db_task_state,
                   db_active_step, execution_logs>>
    /\ UNCHANGED <<node_vars, worker_vars, handler_vars, invoked, count_vars>>
    /\ UNCHANGED <<o_state, o_nodes, o_workflows, terminate_event, o_cur, reload_pc,
                   last_call, load_ret, n_start, n_stop, n_reload>>
    /\ UNCHANGED <<add_pending, restart_ret>>

\* BaseOrchestrator.stop, line 272: the iterator of the second loop hands
\* out the entry at its index and moves on; join() is then called on it
JoinNext ==
    /\ o_pc = "join_loop"
    /\ o_idx < Len(running_tasks)
    /\ o_cur' = running_tasks[o_idx + 1]
    /\ o_idx' = o_idx + 1
    /\ o_pc' = "joining"
    /\ UNCHANGED <<node_vars, task_vars, worker_vars, handler_vars, hist_vars>>
    /\ UNCHANGED <<o_state, o_nodes, o_workflows, terminate_event, reload_pc, last_call,
                   load_ret, n_start, n_stop, n_reload>>
    /\ UNCHANGED <<add_pending, restart_ret>>

\* BaseOrchestrator.stop, line 273: join() returns once the thread ended
JoinReturn ==
    /\ o_pc = "joining"
    /\ ~Alive(o_cur)
    /\ o_pc' = "join_loop"
    /\ o_cur' = None
    /\ UNCHANGED <<node_vars, task_vars, worker_vars, handler_vars, hist_vars>>
    /\ UNCHANGED <<o_state, o_nodes, o_workflows, terminate_event, o_idx, reload_pc,
                   last_call, load_ret, n_start, n_stop, n_reload>>
    /\ UNCHANGED <<add_pending, restart_ret>>

\* BaseOrchestrator.stop, lines 272-287: the second loop ended; the list is
\* cleared, every registered node is shut down, the registries are cleared
StopFinish ==
    /\ o_pc = "join_loop"
    /\ ~(o_idx < Len(running_tasks))
    /\ running_tasks' = <<>>
    /\ db_node_state' = Shutdown(db_node_state, o_nodes)
    /\ o_nodes' = {}
    /\ o_workflows' = {}
    /\ o_state' = "STOPPED"
    /\ last_call' = [op |-> "stop", code |-> "OK", callback |-> TRUE]
    /\ o_pc' = "idle"
    /\ o_idx' = 0
    /\ UNCHANGED <<state, mu, node_task_id, reachable, policy, node_call_records>>
    /\ UNCHANGED <<task_vars, worker_vars, op_wait, continue_ret, hist_vars>>
    /\ UNCHANGED <<terminate_event, o_cur, reload_pc, load_ret, n_start, n_stop, n_reload>>
    /\ UNCHANGED <<add_pending, restart_ret>>

\* lab_add_task of the HTTP surface and BaseOrchestrator.add_task: refused
\* when the terminate event is set or the workflow is not registered;
\* otherwise the worker thread is started (add_task up to line 306)
AddTask(t) ==
    /\ pc[t] = "unborn"
    /\ ~terminate_event
    /\ t \in o_workflows
    /\ pc' = [pc EXCEPT ![t] = "start"]
    /\ add_pending' = add_pending \cup {t}
    /\ UNCHANGED <<node_vars, task_vars, step_id, ret, has_been_paused, exit_code>>
    /\ UNCHANGED <<handler_vars, hist_vars>>
    /\ UNCHANGED <<o_state, o_nodes, o_workflows, terminate_event, o_pc, o_idx, o_cur,
                   reload_pc, last_call, load_ret, n_start, n_stop, n_reload, restart_ret>>

\* BaseOrchestrator.add_task, line 307: the append that follows
\* task_thread.start(), done without the registry mutex
AppendTask(t) ==
    /\ t \in add_pending
    /\ add_pending' = add_pending \ {t}
    /\ running_tasks' = Append(running_tasks, t)
    /\ UNCHANGED <<node_vars, task_vars, worker_vars, op_wait, continue_ret, hist_vars>>
    /\ UNCHANGED <<o_state, o_nodes, o_workflows, terminate_event, o_pc, o_idx, o_cur,
                   reload_pc, last_call, load_ret, n_start, n_stop, n_reload, restart_ret>>

\* reload_config of the HTTP surface, lines 415-420: the test on the list
ReloadCheck ==
    /\ reload_pc = "idle"
    /\ n_reload < MaxReload /\ RequestAllowed
    /\ n_reload' = n_reload + 1
    /\ IF Len(running_tasks) # 0
       THEN /\ last_call' = [op |-> "reload", code |-> "428", callback |-> FALSE]
            /\ UNCHANGED reload_pc
       ELSE /\ reload_pc' = "checked"
            /\ UNCHANGED last_call
    /\ UNCHANGED <<node_vars, task_vars, worker_vars, handler_vars, hist_vars>>
    /\ UNCHANGED <<o_state, o_nodes, o_workflows, terminate_event, o_pc, o_idx, o_cur,
                   load_ret, n_start, n_stop>>
    /\ UNCHANGED <<add_pending, restart_ret>>

\* reload_config of the HTTP surface, lines 422-441: every registered node
\* is shut down, then load_config runs on the uploaded files
ReloadLoad(nrc, wrc) ==
    /\ reload_pc = "checked"
    /\ LET res == LoadConfigResult(nrc, wrc) IN
        /\ o_nodes' = res.nodes
        /\ o_workflows' = res.workflows
        /\ o_state' = res.state
        /\ load_ret' = res.ret
        /\ NodeFieldsAfterLoad(nrc, Shutdown(db_node_state, o_nodes))
        /\ last_call' = [op |-> "reload", code |-> IF res.code = "OK" THEN "200" ELSE "201",
                         callback |-> FALSE]
    /\ reload_pc' = "idle"
    /\ UNCHANGED <<reachable, policy, node_call_records>>
    /\ UNCHANGED <<task_vars, worker_vars, handler_vars, hist_vars>>
    /\ UNCHANGED <<terminate_event, o_pc, o_idx, o_cur, n_start, n_stop, n_reload>>
    /\ UNCHANGED <<add_pending, restart_ret>>

\* the orchestrator as BaseOrchestrator.__init__ leaves it: stopped, empty
\* registries, no task; the nodes table says OFFLINE for every node
InitOrch ==
    /\ state = [n \in Nodes |-> "AVAILABLE"]
    /\ mu = [n \in Nodes |-> None]
    /\ node_task_id = [n \in Nodes |-> None]
    /\ reachable = [n \in Nodes |-> TRUE]
    /\ policy = Policy
    /\ db_node_state = [n \in Nodes |-> "OFFLINE"]
    /\ node_call_records = [n \in Nodes |-> <<>>]
    /\ workflow = Workflows
    /\ t_state = [t \in Tasks |-> "PENDING"]
    /\ stop_flag = [t \in Tasks |-> FALSE]
    /\ current_step = [t \in Tasks |-> -1]
    /\ pause_event = [t \in Tasks |-> FALSE]
    /\ cond_locked = [t \in Tasks |-> FALSE]
    /\ db_task_state = [t \in Tasks |-> "PENDING"]
    /\ db_active_step = [t \in Tasks |-> None]
    /\ execution_logs = [t \in Tasks |-> <<>>]
    /\ pc = [t \in Tasks |-> "unborn"]
    /\ step_id = [t \in Tasks |-> 0]
    /\ ret = [t \in Tasks |-> NoReturn]
    /\ has_been_paused = [t \in Tasks |-> FALSE]
    /\ exit_code = [t \in Tasks |-> None]
    /\ op_wait = [t \in Tasks |-> None]
    /\ continue_ret = [t \in Tasks |-> NotCalled]
    /\ running_tasks = <<>>
    /\ invoked = [t \in Tasks |-> <<>>]
    /\ fail_pending = [t \in Tasks |-> FALSE]
    /\ pause_step = [t \in Tasks |-> NoStep]
    /\ n_fail = 0 /\ n_pause = 0 /\ n_raise = 0 /\ n_toggle = 0 /\ n_restart = 0
    /\ o_state = "STOPPED"
    /\ o_nodes = {}
    /\ o_workflows = {}
    /\ terminate_event = FALSE
    /\ o_pc = "idle"
    /\ o_idx = 0
    /\ o_cur = None
    /\ reload_pc = "idle"
    /\ last_call = [op |-> None, code |-> None, callback |-> FALSE]
    /\ load_ret = [nodes |-> "NOT_CALLED", workflows |-> "NOT_CALLED", code |-> None]
    /\ n_start = 0
    /\ n_stop = 0
    /\ n_reload = 0
    /\ add_pending = {}
    /\ restart_ret = [node |-> None, status |-> NotCalled, code |-> None, http |-> NotCalled]

\* the life of the orchestrator: start, add_task, the workers, reload, stop
NextOrch ==
    \/ \E db \in BOOLEAN, nrc, wrc \in FactoryCodes : OrchStart(db, nrc, wrc)
    \/ OrchStop
    \/ StopTasks
    \/ JoinNext
    \/ JoinReturn
    \/ StopFinish
    \/ \E t \in Tasks : AddTask(t)
    \/ \E t \in Tasks : AppendTask(t)
    \/ ReloadCheck
    \/ \E nrc, wrc \in FactoryCodes : ReloadLoad(nrc, wrc)
    \/ \E t \in Tasks : Run(t)
    \/ \E t \in Tasks : RecursionExit(t)
    \/ \E t \in Tasks : InvokeStep(t)
    \/ \E t \in Tasks : ExecuteAcquire(t)
    \/ \E t \in Tasks : ExecuteSuccess(t)
    \/ \E t \in Tasks : EnterCondition(t)
    \/ \E t \in Tasks : RunExit(t)

SpecOrch == InitOrch /\ [][NextOrch]_vars

(* ================================================================ claims *)
\* the worker of t is between acquiring and releasing the gate of n
InsideGate(t, n) == pc[t] = "action" /\ CurNode(t) = n

\* the worker of t has called execute() on n and waits for the gate
WaitsForGate(t, n) == pc[t] = "acquire" /\ CurNode(t) = n

\* C1: for every node, at every moment, at most one task worker is between
\* acquiring and releasing the node's gate inside execute()
C1_MutualExclusion ==
    \A n \in Nodes : Cardinality({t \in Tasks : InsideGate(t, n)}) <= 1

\* two workers contend for one node: one is inside, the other waits
C1_Witness ==
    \E n \in Nodes, t, u \in Tasks : t # u /\ InsideGate(t, n) /\ WaitsForGate(u, n)

\* C2: whenever a worker leaves execute() - success return, non-zero status
\* or exception - the gate of the node is free in the state it leaves
C2_GateReleasedOnEveryExit ==
    [][\A t \in Tasks :
         (pc[t] = "action" /\ pc'[t] # "action") => mu'[CurNode(t)] = None]_vars

\* a worker left execute() by an exception and another task then acquired
\* the gate of the same node
C2_Witness ==
    \E t, u \in Tasks :
        /\ n_raise = 1 /\ n_fail = 0
        /\ pc[t] = "dead" /\ pc[u] = "action"
        /\ CurNode(u) = CurNode(t)

\* the step taken is the return of execute() of t with status 0
SuccessReturn(t) == pc[t] = "action" /\ pc'[t] = "cond" /\ n_fail' = n_fail

\* the step taken is the return of execute() of t with a non-zero status
FailureReturn(t) == pc[t] = "action" /\ pc'[t] = "cond" /\ n_fail' # n_fail

Invokes(t) == invoked'[t] # invoked[t]

\* the step indices 0 .. len(steps)-1 in order
AllStepsOnce(t) == [i \in 1..Len(workflow[t]) |-> i - 1]

C6_CurrentStepSequence ==
    /\ \A t \in Tasks : current_step[t] = -1
    /\ [][\A t \in Tasks :
            /\ current_step'[t] \in (-1)..(Len(workflow[t]) - 1)
            /\ current_step'[t] \in {current_step[t], current_step[t] + 1}
            /\ (Invokes(t) /\ current_step'[t] = current_step[t]) =>
                  (ret[t].status # 0 /\ policy[CurNode(t)] = SELF)]_vars

\* C7: the worker invokes step i only if every step j >= i of the workflow
\* has a usable node (reachable and not in ERROR); otherwise the task goes
\* to ERROR without invoking execute
C7_UnusableSuffixBlocksStep ==
    [][\A t \in Tasks : Invokes(t) =>
         \A j \in step_id[t]..(Len(workflow[t]) - 1) :
             is_usable(StepAt(workflow[t], j))]_vars

\* C8: the failing return of execute() leaves the task in ERROR with the
\* pause event set, and the worker invokes no execute while no continue and
\* no stop has been issued since
C8_FailedStepParks ==
    [][\A t \in Tasks :
         /\ FailureReturn(t) => (t_state'[t] = "ERROR" /\ pause_event'[t])
         /\ Invokes(t) => ~fail_pending[t]]_vars

\* a worker is parked by a failure and no control operation came yet
C8_Witness ==
    \E t \in Tasks :
        /\ pc[t] = "parked" /\ fail_pending[t]
        /\ t_state[t] = "ERROR" /\ pause_event[t] /\ ~stop_flag[t]

NoStepInError(t, st) == \A n \in Range(workflow[t]) : st[n] \notin {"ERROR", "RECOVERY"}

\* C10: a continue_execution() in which a restart returns non-zero returns
\* that status and resumes nothing (task state, pause event and worker
\* position stay as they were, the node keeps its state); it returns 0,
\* sets ACTIVE and clears the pause event only when every step in ERROR or
\* RECOVERY was restarted successfully
C10_ContinueNeedsRestarts ==
    [][\A t \in Tasks :
         /\ (continue_ret'[t] # continue_ret[t] /\ continue_ret'[t] # 0) =>
               /\ continue_ret'[t] \in RestartStatus
               /\ t_state'[t] = t_state[t]
               /\ pause_event'[t] = pause_event[t]
               /\ pc'[t] = pc[t]
               /\ op_wait'[t] = op_wait[t]
               /\ \E n \in Range(workflow[t]) :
                     state[n] \in {"ERROR", "RECOVERY"} /\ state'[n] = state[n]
         /\ (continue_ret'[t] # continue_ret[t] /\ continue_ret'[t] = 0) =>
               /\ NoStepInError(t, state')
               /\ t_state'[t] = "ACTIVE"
               /\ ~pause_event'[t]
         /\ (pause_event[t] /\ ~pause_event'[t]) =>
               (stop_flag'[t] \/ (continue_ret'[t] = 0 /\ NoStepInError(t, state')))]_vars

\* a continue failed on a restart and the worker is still parked in ERROR
C10_Witness ==
    \E t \in Tasks :
        /\ continue_ret[t] \in RestartStatus \ {0}
        /\ pc[t] = "parked" /\ pause_event[t] /\ t_state[t] = "ERROR"
        /\ \E n \in Range(workflow[t]) : state[n] = "ERROR"

\* C11: a worker parked on the pause condition whose task is stopped
\* eventually wakes, observes stop_flag (which puts the task in ERROR and
\* makes _run return EINTR) and ends, so that it can be joined
C11_StoppedParkedWorkerEnds ==
    \A t \in Operated :
        (pc[t] = "parked" /\ stop_flag[t]) ~> (pc[t] = "done" /\ exit_code[t] = "EINTR")

C13_PauseHoldsNextStep ==
    [][\A t \in Tasks :
         /\ (pause_step[t] = NoStep /\ pause_step'[t] # NoStep) =>
               /\ pc'[t] = pc[t]
               /\ UNCHANGED <<mu, state, node_task_id, node_call_records>>
         /\ Invokes(t) => pause_step[t] = NoStep]_vars

\* the step taken is the return of BaseOrchestrator.stop() with the code OK
StopReturnsOK == o_pc = "join_loop" /\ o_pc' = "idle"

\* C14: after Orchestrator.stop() returned OK the running-task list is
\* empty, every node that was registered has the state OFFLINE and the
\* orchestrator state is STOPPED
C14_AfterStop ==
    [][StopReturnsOK =>
         /\ last_call'.code = "OK"
         /\ running_tasks' = <<>>
         /\ o_state' = "STOPPED"
         /\ \A n \in o_nodes : state'[n] = "OFFLINE"]_vars

\* C15: Orchestrator.stop() joins every worker that was in the running-task
\* list, also when workers remove themselves from the list meanwhile: the
\* step in which stop() shuts the nodes down and returns is taken only when
\* the thread of no task is alive
C15_StopJoinsEveryWorker ==
    [][StopReturnsOK => \A t \in Tasks : ~Alive(t)]_vars

\* the step taken is a call of BaseOrchestrator.start()
StartCalled == n_start' # n_start

\* the step taken is a call of BaseOrchestrator.stop()
StopCalled == n_stop' # n_stop

\* C16: start() called while the orchestrator is RUNNING returns CANCELLED
\* and leaves the orchestrator state, the node registry, the workflow
\* registry and the running-task list unchanged
C16_StartWhileRunning ==
    [][(StartCalled /\ o_state = "RUNNING") =>
         /\ last_call' = [op |-> "start", code |-> "CANCELLED", callback |-> FALSE]
         /\ UNCHANGED <<o_state, o_nodes, o_workflows, running_tasks>>
         /\ UNCHANGED <<node_vars, task_vars, worker_vars, terminate_event, load_ret>>]_vars

\* a second start() was answered CANCELLED while a task was running
C16_Witness ==
    /\ n_start = 2
    /\ last_call = [op |-> "start", code |-> "CANCELLED", callback |-> FALSE]
    /\ o_state = "RUNNING" /\ o_nodes = Nodes /\ o_workflows = DOMAIN Workflows
    /\ \E t \in Tasks : Alive(t) /\ t \in Range(running_tasks)

\* C17: stop() called while the orchestrator is STOPPED returns CANCELLED
\* and has no effect: the stop callback is not invoked, no task is stopped,
\* no node is shut down and the state stays STOPPED
C17_StopWhileStopped ==
    [][(StopCalled /\ o_state = "STOPPED") =>
         /\ last_call' = [op |-> "stop", code |-> "CANCELLED", callback |-> FALSE]
         /\ o_state' = "STOPPED"
         /\ UNCHANGED <<stop_flag, pause_event, running_tasks, terminate_event, o_pc>>
         /\ UNCHANGED <<node_vars, worker_vars, o_nodes, o_workflows>>]_vars

\* a stop() was answered CANCELLED by a STOPPED orchestrator that has
\* registered nodes and a running task (loaded by a reload_config)
C17_Witness ==
    /\ n_stop = 1
    /\ last_call = [op |-> "stop", code |-> "CANCELLED", callback |-> FALSE]
    /\ o_state = "STOPPED" /\ o_nodes # {}
    /\ \E t \in Tasks : Alive(t) /\ ~stop_flag[t]

\* C18: whenever start() fails (the database is not connected, or
\* load_config() returns a non-OK code) the orchestrator state is ERROR
\* afterwards and the start callback was not invoked; RUNNING is reached
\* only by a start() whose two checks succeeded
C18_StartFailureSetsError ==
    [][/\ (StartCalled /\ last_call'.code \notin {"OK", "CANCELLED"}) =>
             (o_state' = "ERROR" /\ ~last_call'.callback)
       /\ (o_state # "RUNNING" /\ o_state' = "RUNNING") =>
             /\ StartCalled
             /\ last_call'.code = "OK"
             /\ load_ret'.code = "OK"]_vars

\* the step taken ran the body of BaseOrchestrator.load_config: from
\* start() past the database test, or from reload_config past its test
LoadConfigRan ==
    \/ StartCalled /\ last_call'.code \notin {"CANCELLED", "DATABASE_CONNECTION_REFUSED"}
    \/ reload_pc = "checked" /\ reload_pc' = "idle"

\* C19: a load_config() that returns a non-OK code returns the code of the
\* factory that failed and leaves the orchestrator in ERROR; it returns OK
\* only when both factories answered OK
C19_LoadConfigFailure ==
    [][LoadConfigRan =>
         /\ load_ret'.code # "OK" =>
               /\ load_ret'.code \in FactoryCodes \ {"OK"}
               /\ load_ret'.code = IF load_ret'.nodes # "OK" THEN load_ret'.nodes
                                   ELSE load_ret'.workflows
               /\ o_state' = "ERROR"
         /\ load_ret'.code = "OK" =>
               (load_ret'.nodes = "OK" /\ load_ret'.workflows = "OK")]_vars

\* a reload_config on a RUNNING orchestrator whose workflow factory failed:
\* load_config returned the factory's code and the state is ERROR
C19_Witness ==
    /\ last_call.op = "reload" /\ last_call.code = "201"
    /\ load_ret = [nodes |-> "OK", workflows |-> "COULD_NOT_PARSE_CONFIGURATION",
                   code |-> "COULD_NOT_PARSE_CONFIGURATION"]
    /\ n_start = 1
    /\ o_state = "ERROR"

\* C20: while the thread of any task is alive no load_config() runs its
\* body (clearing and refilling the registries) and no reload shuts a node
\* down, however the reload interleaves with add_task and the workers
C20_NoReloadWhileActive ==
    [][(\E t \in Tasks : Alive(t)) => ~LoadConfigRan]_vars

\* the nodes table after stop() returned OK: every node that was registered
\* is OFFLINE in the store
StopPersistsOffline ==
    [][StopReturnsOK => \A n \in o_nodes : db_node_state'[n] = "OFFLINE"]_vars

\* C21: every entry of the running-task list belongs to a worker that has not
\* terminated (it runs, or it is about to run its removal callback); an entry
\* of a terminated worker is never in the list
C21_ListedTaskHasLiveWorker ==
    \A t \in Range(running_tasks) : Alive(t)

\* C22: while a node is in ERROR no worker enters its gate (so none invokes
\* its action), and the node leaves ERROR only for AVAILABLE (a restart that
\* succeeded) or OFFLINE (a shutdown), never for IN_USE through an execute
C22_ErrorNodeNotExecuted ==
    [][\A n \in Nodes :
          state[n] = "ERROR" =>
              /\ mu'[n] = mu[n]
              /\ state'[n] \in {"ERROR", "AVAILABLE", "OFFLINE"}]_vars

\* restart_node() was called in this step
RestartCalled == n_restart' # n_restart

\* C23: restart() returns the status of the restart hook; the node is
\* AVAILABLE afterwards when that status is 0 and keeps the state it had
\* when it is not; no other node changes state
C23_RestartFollowsHook ==
    [][(RestartCalled /\ restart_ret'.status # NotCalled) =>
          LET n == restart_ret'.node
              s == restart_ret'.status
          IN  /\ n \in Nodes /\ s \in RestartStatus
              /\ s = 0 => state'[n] = "AVAILABLE"
              /\ s # 0 => state'[n] = state[n]
              /\ \A m \in Nodes \ {n} : state'[m] = state[m]]_vars

\* a restart whose hook answered non-zero left a node in ERROR
C23_Witness ==
    /\ restart_ret.node \in Nodes
    /\ restart_ret.status # 0
    /\ state[restart_ret.node] = "ERROR"

\* C24: shutdown() leaves the node in state OFFLINE whatever state it had:
\* when stop() returns, every node it shut down has node.state = OFFLINE
C24_ShutdownSetsOffline ==
    [][StopReturnsOK => \A n \in o_nodes : state'[n] = "OFFLINE"]_vars

\* C25: every step that writes a node's state, in memory or in the nodes
\* table, leaves the persisted node_state_id equal to node.state
C25_PersistedStateFollowsMemory ==
    [][\A n \in Nodes :
          (state'[n] # state[n] \/ db_node_state'[n] # db_node_state[n])
              => db_node_state'[n] = state'[n]]_vars

\* the worker of t has ended and left the task in FINISHED or ERROR
Terminated(t) == pc[t] \in {"done", "dead"} /\ t_state[t] \in {"FINISHED", "ERROR"}

\* C26: once the worker of a task has ended with the task in FINISHED or
\* ERROR, the task's state does not change any more under the control
\* operations; in particular no continue makes the task ACTIVE again
C26_TerminalStateSticky ==
    [][\A t \in Tasks : Terminated(t) => t_state'[t] # "ACTIVE"]_vars

\* C27: a task whose state is PAUSED has stop_flag unset and its pause
\* event set
C27_PausedMeansLatched ==
    \A t \in Tasks : t_state[t] = PAUSED => (~stop_flag[t] /\ pause_event[t])

\* no action failed or raised, no node was toggled or restarted, and no
\* pause, continue or stop is in effect on any task
Undisturbed ==
    /\ n_fail = 0 /\ n_raise = 0 /\ n_pause = 0 /\ n_toggle = 0 /\ n_restart = 0
    /\ \A t \in Tasks :
          ~stop_flag[t] /\ continue_ret[t] = NotCalled /\ op_wait[t] = None

\* the execution_logs rows of a run of steps in which every step succeeded:
\* the gate-wait row and the node's row of step 1, then those of step 2, ...
ExpectedLogs(steps) ==
    [k \in 1..(2 * Len(steps)) |->
        IF k % 2 = 1 THEN "w. acc." ELSE steps[k \div 2]]

\* number of rows of the sequence rows that are equal to x
CountOf(rows, x) == Cardinality({k \in 1..Len(rows) : rows[k] = x})

\* number of rows labelled n in the execution_logs of the tasks in ts
RECURSIVE NodeRows(_, _)
NodeRows(ts, n) ==
    IF ts = {} THEN 0
    ELSE LET t == CHOOSE x \in ts : TRUE
         IN  CountOf(execution_logs[t], n) + NodeRows(ts \ {t}, n)

FailedAt(t, i) ==
    /\ pc[t] \in {"done", "dead"}
    /\ Len(execution_logs[t]) >= 2 * i + 1
    /\ execution_logs[t][2 * i + 1] = "w. acc."
    /\ Len(execution_logs[t]) > 2 * i + 1 => execution_logs[t][2 * i + 2] = "w. acc."

\* the execution_logs rows of a run of steps in which step i failed once and
\* was not redone, every other step succeeded
LogsWithFailureAt(steps, i) ==
    [k \in 1..(2 * Len(steps) - 1) |->
        LET j == IF k <= 2 * i + 1 THEN k ELSE k + 1
        IN  IF j % 2 = 1 THEN "w. acc." ELSE steps[j \div 2]]

\* C29: when exactly one step i of a task failed, on a node with policy
\* NEXT, and one continue restarted that node with success, the worker does
\* not end before the task is FINISHED: it resumed after step i (past the
\* end when i is the last step), every other step has its node row, step i
\* has an "error" NodeCallRecord and its node is out of ERROR
C29_ResumeAfterFailureFinishes ==
    \A t \in Operated : \A i \in 0..(Len(workflow[t]) - 1) :
        LET n == workflow[t][i + 1]
        IN  ( /\ n_fail = 1 /\ n_raise = 0 /\ n_pause = 0 /\ n_toggle = 0 /\ n_restart = 0
              /\ ~stop_flag[t]
              /\ continue_ret[t] = 0
              /\ policy[n] = NEXT
              /\ FailedAt(t, i) )
            => /\ t_state[t] = "FINISHED"
               /\ pc[t] = "done"
               /\ state[n] # "ERROR"
               /\ execution_logs[t] = LogsWithFailureAt(workflow[t], i)
               /\ "error" \in Range(node_call_records[n])

\* C30: tasks submitted together whose workflows share nodes, with every
\* action returning 0 and no control operation: under fair scheduling of the
\* workers every task eventually is FINISHED with its worker ended
C30_ContentionNeverDeadlocks ==
    <>(\A t \in Tasks : pc[t] = "done" /\ t_state[t] = "FINISHED")

\* both tasks, which share B and C, ran to the end and are FINISHED
C30_Witness ==
    \A t \in Tasks :
        /\ pc[t] = "done" /\ t_state[t] = "FINISHED"
        /\ execution_logs[t] = ExpectedLogs(workflow[t])

\* the node gates the worker of t holds
GatesHeld(t) == {n \in Nodes : mu[n] = t}

\* C31: a worker holds at most one node gate; while it holds one it does not
\* take its task's pause condition and does not wait on it; a worker that
\* waits on the pause condition holds no gate
C31_GateIsInnermostLock ==
    [][\A t \in Tasks :
          /\ Cardinality({n \in Nodes : mu'[n] = t}) <= 1
          /\ GatesHeld(t) # {} =>
                /\ cond_locked'[t] => cond_locked[t]
                /\ pc'[t] \notin {"parked", "woken"}
          /\ pc'[t] \in {"parked", "woken"} => \A n \in Nodes : mu'[n] # t]_vars

\* a resumed worker, whose frames hold the pause condition, is inside a gate
C31_Witness ==
    \E t \in Tasks : cond_locked[t] /\ pc[t] = "action" /\ GatesHeld(t) = {CurNode(t)}

\* the worker of t enters the gate of n in this step
EntersGate(t, n) == mu[n] # t /\ mu'[n] = t

\* C32: a worker that enters a node's gate never finds the node IN_USE, in
\* memory or in the nodes table: the holder before it wrote and persisted
\* AVAILABLE or ERROR before it released the gate
C32_NextHolderSeesPostState ==
    [][\A t \in Tasks : \A n \in Nodes :
          EntersGate(t, n) => (state[n] # "IN_USE" /\ db_node_state[n] # "IN_USE")]_vars

\* the same for the exits of execute() that return: as long as no action
\* raised, no worker enters a gate on a node left IN_USE (holds)
ReturnedHolderLeavesPostState ==
    [][\A t \in Tasks : \A n \in Nodes :
          (n_raise = 0 /\ EntersGate(t, n))
              => (state[n] # "IN_USE" /\ db_node_state[n] # "IN_USE")]_vars

\* the pre-step check of t returns EHOSTUNREACH in this step
FailsUnreachable(t) == pc[t] = "check" /\ exit_code'[t] = "EHOSTUNREACH"

\* C33: the check before step i fails a task as unreachable only because of
\* a step at index i or above
C33_CheckLooksAtSuffixOnly ==
    [][\A t \in Tasks : FailsUnreachable(t) =>
          \E j \in step_id[t]..(Len(workflow[t]) - 1) :
              ~reachable[workflow[t][j + 1]]]_vars

\* a submission of t is accepted in this step: add_task spawns its worker
TaskAccepted(t) == pc[t] = "unborn" /\ pc'[t] = "start"

\* C34: a task submission is accepted, and a worker spawned, only while the
\* orchestrator state is RUNNING
C34_AddTaskOnlyWhileRunning ==
    [][\A t \in Tasks : TaskAccepted(t) => o_state = "RUNNING"]_vars

\* C35: a restart_node request on an unknown node id is answered
\* CONTENT_NOT_FOUND and 404; one whose restart hook fails is answered
\* RESTART_NODE_FAILED and 500, never a success status
C35_RestartNodeReported ==
    [][RestartCalled =>
          LET r == restart_ret'
          IN  /\ r.node \notin o_nodes => (r.code = "CONTENT_NOT_FOUND" /\ r.http = 404)
              /\ (r.node \in o_nodes /\ r.status # 0) =>
                    (r.code = "RESTART_NODE_FAILED" /\ r.http = 500)]_vars

\* the orchestrator's half of C35, without the HTTP status (holds)
RestartNodeCodeFaithful ==
    [][RestartCalled =>
          LET r == restart_ret'
          IN  /\ r.node \notin o_nodes => (r.code = "CONTENT_NOT_FOUND" /\ r.http = 404)
              /\ (r.node \in o_nodes /\ r.status # 0) => r.code = "RESTART_NODE_FAILED"
              /\ (r.node \in o_nodes /\ r.status = 0) => r.code = "OK"]_vars

\* C36: once stop() was called on a task, stop_flag stays true as long as
\* the worker is alive, and the worker invokes no step
C36_StopIsNeverLost ==
    [][\A t \in Tasks : (stop_flag[t] /\ Alive(t)) =>
          (stop_flag'[t] /\ ~Invokes(t))]_vars

\* C37: a worker that is inside a node's execute(), waiting for the gate or
\* running the action, does not hold its task's pause condition, so that
\* pause_execution() and continue_execution() can enter it
C37_ExecuteOutsideCondition ==
    \A t \in Tasks : InExecute(t) => ~cond_locked[t]

\* step k (0-based) of t has returned success: its node row is written
Succeeded(t, k) == workflow[t][k + 1] \in Range(execution_logs[t])

\* C38: a step whose execute() returned success is never invoked again,
\* also when an operator pause parked the worker after it and a continue
\* followed, whatever the next-node policy of its node
C38_SucceededStepNotRedone ==
    [][\A t \in Tasks : Invokes(t) => ~Succeeded(t, step_id[t])]_vars

\* C39: while a worker runs a node's action under the gate, the node's
\* state in memory is IN_USE
C39_InUseDuringAction ==
    \A t \in Tasks : \A n \in Nodes : InsideGate(t, n) => state[n] = "IN_USE"

\* C40: every workflow in the workflow registry has all its steps in the
\* node registry
C40_WorkflowsReferenceRegisteredNodes ==
    \A w \in o_workflows : Range(Workflows[w]) \subseteq o_nodes

====
